---- MODULE Spec2Model ----
(***************************************************************************)
(* wetmsm/vmd_write.py: the translation between the pruned 1-d feature     *)
(* index and the (solute, shell) pair, the expansion of a loading vector   *)
(* to a (solute, shell) matrix, and the chunked reduction of an            *)
(* assignments table into a (frame, atom) array.                           *)
(*                                                                         *)
(* Python containers are 0-indexed.  Lists (an assignments table, a        *)
(* loading vector, solvent_ind) are TLA+ sequences, so element i of the    *)
(* list is seq[i + 1]; arrays and dicts are functions over the 0-based     *)
(* index tuples.  numpy float64 values are exact rationals <<num, den>>    *)
(* with den > 0, kept in lowest terms.                                     *)
(***************************************************************************)
EXTENDS Integers, Sequences, FiniteSets, TLC

\* ------------------------------------------------------------------ bounds
MaxRows    == 3   \* rows of an assignments table passed to _compute
MaxChunk   == 3   \* largest chunksize passed to _compute
NFrames    == 2   \* n_frames of a call
NAtoms     == 3   \* n_atoms of a call
MaxSolute  == 2   \* largest n_solute of a VMDWriter
MaxShells  == 2   \* largest n_shells of a VMDWriter
MaxDeleted == 2   \* largest number of pruned indices passed as `deleted`
MaxLoad    == 4   \* longest loading vector passed to a VMDWriter
MaxStride  == 2   \* largest stride passed to write_dat

\* ------------------------------------------------------------ float values
RECURSIVE GCD(_, _)
GCD(a, b) == IF b = 0 THEN a ELSE GCD(b, a % b)

Abs(n) == IF n < 0 THEN -n ELSE n

\* <<n, d>> in lowest terms
Norm(n, d) == LET g == GCD(Abs(n), d) IN <<n \div g, d \div g>>

R(n) == <<n, 1>>

RatAdd(x, y) == Norm(x[1] * y[2] + y[1] * x[2], x[2] * y[2])

RatDiv(x, k) == Norm(x[1], x[2] * k)

RatLess(x, y) == x[1] * y[2] < y[1] * x[2]

\* ------------------------------------------------- VMDWriter: translation
\* np.in1d(absi, deleted) of a scalar, used as a truth value
in1d(absi, deleted) == absi \in deleted

\* The loop of set_up_translation with pruni counting the pruned indices too
RECURSIVE set_up_loop_skip(_, _, _, _, _, _)
set_up_loop_skip(n_solute, n_shells, deleted, absi, pruni, acc) ==
    IF absi = n_solute * n_shells THEN acc
    ELSE LET ute == absi \div n_shells
             sh  == absi % n_shells
         IN  IF ~in1d(absi, deleted)
             THEN set_up_loop_skip(n_solute, n_shells, deleted, absi + 1, pruni + 1,
                      [to3d |-> (pruni :> <<ute, sh>>) @@ acc.to3d,
                       to2d |-> (<<ute, sh>> :> pruni) @@ acc.to2d])
             ELSE set_up_loop_skip(n_solute, n_shells, deleted, absi + 1, pruni + 1,
                      [to3d |-> acc.to3d,
                       to2d |-> (<<ute, sh>> :> -1) @@ acc.to2d])

\* The loop of set_up_translation.  The nested loops over range(n_solute)
\* and range(n_shells) visit absi = 0, 1, ... with ute = absi // n_shells and
\* sh = absi % n_shells; acc holds the dicts built so far.
RECURSIVE set_up_loop(_, _, _, _, _, _)
set_up_loop(n_solute, n_shells, deleted, absi, pruni, acc) ==
    IF absi = n_solute * n_shells THEN acc
    ELSE LET ute == absi \div n_shells
             sh  == absi % n_shells
         IN  IF ~in1d(absi, deleted)
             THEN set_up_loop(n_solute, n_shells, deleted, absi + 1, pruni + 1,
                      [to3d |-> (pruni :> <<ute, sh>>) @@ acc.to3d,
                       to2d |-> (<<ute, sh>> :> pruni) @@ acc.to2d])
             ELSE set_up_loop(n_solute, n_shells, deleted, absi + 1, pruni,
                      [to3d |-> acc.to3d,
                       to2d |-> (<<ute, sh>> :> -1) @@ acc.to2d])

\* An empty dict
EmptyDict == [k \in {} |-> 0]

\* set_up_translation(deleted) on a writer with the given n_solute, n_shells:
\* the returned pair of dicts
set_up_translation(n_solute, n_shells, deleted) ==
    set_up_loop(n_solute, n_shells, deleted, 0, 0,
                [to3d |-> EmptyDict, to2d |-> EmptyDict])

\* np.zeros((rows, cols))
zeros(rows, cols) == [c \in (0 .. rows - 1) \X (0 .. cols - 1) |-> R(0)]

\* The loop of translate_loading reading loading[absi]
RECURSIVE translate_loop_absi(_, _, _, _, _, _, _)
translate_loop_absi(n_solute, n_shells, loading, deleted, absi, pruni, acc) ==
    IF absi = n_solute * n_shells THEN acc
    ELSE LET ute == absi \div n_shells
             sh  == absi % n_shells
         IN  IF ~in1d(absi, deleted)
             THEN IF absi >= Len(loading)
                  THEN [loading2d |-> acc.loading2d, ok |-> FALSE]
                  ELSE translate_loop_absi(n_solute, n_shells, loading, deleted,
                           absi + 1, pruni + 1,
                           [loading2d |-> [acc.loading2d EXCEPT
                                              ![<<ute, sh>>] = R(loading[absi + 1])],
                            ok |-> TRUE])
             ELSE translate_loop_absi(n_solute, n_shells, loading, deleted,
                      absi + 1, pruni,
                      [loading2d |-> [acc.loading2d EXCEPT ![<<ute, sh>>] = R(0)],
                       ok |-> TRUE])

\* The loop of translate_loading; acc is [loading2d, ok], ok = FALSE once
\* loading[pruni] raised IndexError.
RECURSIVE translate_loop(_, _, _, _, _, _, _)
translate_loop(n_solute, n_shells, loading, deleted, absi, pruni, acc) ==
    IF absi = n_solute * n_shells THEN acc
    ELSE LET ute == absi \div n_shells
             sh  == absi % n_shells
         IN  IF ~in1d(absi, deleted)
             THEN IF pruni >= Len(loading)
                  THEN [loading2d |-> acc.loading2d, ok |-> FALSE]
                  ELSE translate_loop(n_solute, n_shells, loading, deleted,
                           absi + 1, pruni + 1,
                           [loading2d |-> [acc.loading2d EXCEPT
                                              ![<<ute, sh>>] = R(loading[pruni + 1])],
                            ok |-> TRUE])
             ELSE translate_loop(n_solute, n_shells, loading, deleted,
                      absi + 1, pruni,
                      [loading2d |-> [acc.loading2d EXCEPT ![<<ute, sh>>] = R(0)],
                       ok |-> TRUE])

\* translate_loading(loading, deleted): [loading2d, ok]
translate_loading(n_solute, n_shells, loading, deleted) ==
    translate_loop(n_solute, n_shells, loading, deleted, 0, 0,
                   [loading2d |-> zeros(n_solute, n_shells), ok |-> TRUE])

\* ---------------------------------------------------- _vmd_write (chunks)
\* The chunk functions are applied to rows that index solvent_ind, loading2d
\* and user inside their bounds.

\* The (frame, atom) cell a row (frame, solvent, solute, shell) lands on
CellOf(row, solvent_ind) == <<row[1], solvent_ind[row[2] + 1]>>

\* sum: user[frame, atom] += loading2d[solute, shell], row by row
RECURSIVE _compute_chunk_add(_, _, _, _)
_compute_chunk_add(chunk, solvent_ind, loading2d, user) ==
    IF chunk = <<>> THEN user
    ELSE LET row == Head(chunk) IN
         _compute_chunk_add(Tail(chunk), solvent_ind, loading2d,
             [user EXCEPT ![CellOf(row, solvent_ind)] =
                 RatAdd(@, loading2d[<<row[3], row[4]>>])])

\* max: user[frame, atom] = max(user[frame, atom], loading2d[solute, shell])
RECURSIVE _compute_chunk_max(_, _, _, _)
_compute_chunk_max(chunk, solvent_ind, loading2d, user) ==
    IF chunk = <<>> THEN user
    ELSE LET row == Head(chunk) IN
         _compute_chunk_max(Tail(chunk), solvent_ind, loading2d,
             [user EXCEPT ![CellOf(row, solvent_ind)] =
                 IF RatLess(@, loading2d[<<row[3], row[4]>>])
                 THEN loading2d[<<row[3], row[4]>>] ELSE @])

\* avg, the accumulation: user[frame, atom] += value, count[frame, atom] += 1
RECURSIVE avg_accumulate(_, _, _, _, _)
avg_accumulate(chunk, solvent_ind, loading2d, user, count) ==
    IF chunk = <<>> THEN [user |-> user, count |-> count]
    ELSE LET row == Head(chunk) IN
         avg_accumulate(Tail(chunk), solvent_ind, loading2d,
             [user EXCEPT ![CellOf(row, solvent_ind)] =
                 RatAdd(@, loading2d[<<row[3], row[4]>>])],
             [count EXCEPT ![CellOf(row, solvent_ind)] = @ + 1])

\* avg: the call gets the chunk and user only, so the count array lives for
\* the one call and the division by the count closes the call.
_compute_chunk_avg(chunk, solvent_ind, loading2d, user) ==
    LET r == avg_accumulate(chunk, solvent_ind, loading2d, user,
                            [c \in DOMAIN user |-> 0])
    IN  [c \in DOMAIN user |->
            IF r.count[c] > 0 THEN RatDiv(r.user[c], r.count[c]) ELSE r.user[c]]

\* ----------------------------------------------------------------- _compute
\* func_map with the key "sum" in place of "add"
func_map_sum == [w \in {"sum", "max", "avg"} |->
                   CASE w = "sum" -> "_compute_chunk_add"
                     [] w = "max" -> "_compute_chunk_max"
                     [] w = "avg" -> "_compute_chunk_avg"]

\* func_map: the tag -> the chunk function
func_map == [w \in {"add", "max", "avg"} |->
               CASE w = "add" -> "_compute_chunk_add"
                 [] w = "max" -> "_compute_chunk_max"
                 [] w = "avg" -> "_compute_chunk_avg"]

\* compute_chunk(chunk, solvent_ind, loading2d, user), compute_chunk being
\* the function func_map gave
compute_chunk(f, chunk, solvent_ind, loading2d, user) ==
    CASE f = "_compute_chunk_add" -> _compute_chunk_add(chunk, solvent_ind, loading2d, user)
      [] f = "_compute_chunk_max" -> _compute_chunk_max(chunk, solvent_ind, loading2d, user)
      [] f = "_compute_chunk_avg" -> _compute_chunk_avg(chunk, solvent_ind, loading2d, user)

\* n_chunks without the + 1
n_chunks_of_floor(nrows, chunksize) == nrows \div chunksize

\* n_chunks = assn.shape[0] // chunksize + 1
n_chunks_of(nrows, chunksize) == nrows \div chunksize + 1

\* A read that runs one row into the next chunk
read_range_overlap(chunksize, i) == <<chunksize * i, chunksize * (i + 1) + 1>>

\* The arguments of assn.read in iteration chunk_i
read_range(chunksize, i) == <<chunksize * i, chunksize * (i + 1)>>

Min(a, b) == IF a < b THEN a ELSE b

\* assn.read(start, stop): rows start .. stop - 1 of the table, cut at its end
read(assn, start, stop) == SubSeq(assn, start + 1, Min(stop, Len(assn)))

\* Iterations chunk_i = i .. n - 1 of the loop of _compute, from user
RECURSIVE _compute_loop(_, _, _, _, _, _, _, _)
_compute_loop(assn, loading2d, solvent_ind, chunksize, f, user, i, n) ==
    IF i >= n THEN user
    ELSE LET rr == read_range(chunksize, i)
         IN  _compute_loop(assn, loading2d, solvent_ind, chunksize, f,
                 compute_chunk(f, read(assn, rr[1], rr[2]), solvent_ind,
                               loading2d, user),
                 i + 1, n)

\* _compute(assn, loading2d, n_frames, n_atoms, solvent_ind, chunksize, which)
\* run to its end: [user, ok]; ok = FALSE when func_map[which] raised
_compute(assn, loading2d, n_frames, n_atoms, solvent_ind, chunksize, which) ==
    IF which \notin DOMAIN func_map
    THEN [user |-> zeros(n_frames, n_atoms), ok |-> FALSE]
    ELSE [user |-> _compute_loop(assn, loading2d, solvent_ind, chunksize,
                                 func_map[which], zeros(n_frames, n_atoms), 0,
                                 n_chunks_of(Len(assn), chunksize)),
          ok |-> TRUE]

\* --------------------------------------------------------------- the inputs
\* (solute, shell) loading matrices: [[5], [7]], [[5, 0], [0, 7]] and
\* [[1, 0], [2, 3]]
Loading2ds ==
    { (<<0, 0>> :> R(5)) @@ (<<1, 0>> :> R(7)),
      (<<0, 0>> :> R(5)) @@ (<<0, 1>> :> R(0)) @@
      (<<1, 0>> :> R(0)) @@ (<<1, 1>> :> R(7)),
      (<<0, 0>> :> R(1)) @@ (<<0, 1>> :> R(0)) @@
      (<<1, 0>> :> R(2)) @@ (<<1, 1>> :> R(3)) }

\* Assignment rows (frame, solvent, solute, shell) whose (solute, shell) is an
\* entry of the loading matrix
RowPool(loading2d) ==
    { r \in { <<0, 0, 0, 0>>, <<0, 0, 1, 0>>, <<0, 1, 0, 0>>, <<1, 1, 1, 0>>,
              <<1, 1, 1, 1>>, <<NFrames - 1, 0, 0, 0>> } :
        <<r[3], r[4]>> \in DOMAIN loading2d }

Tables(loading2d) == UNION { [1 .. n -> RowPool(loading2d)] : n \in 0 .. MaxRows }

\* solvent_ind: local solvent index -> atom index
SolventMaps == { <<2, 0>>, <<1, 1>>, <<0, NAtoms - 1>> }

Tags == {"add", "max", "avg", "sum", "min"}

\* Loading vectors given to a VMDWriter
LoadVecs == UNION { [1 .. n -> 1 .. 3] : n \in 0 .. MaxLoad }

\* The assignments of a VMDWriter
WriterTables == { <<>>, << <<0, 0, 0, 0>> >>,
                  << <<0, 0, 0, 0>>, <<1, 1, 0, 0>> >> }

\* `deleted` for a writer of n_solute * n_shells features
DeletedSets(n) == { d \in SUBSET (0 .. n - 1) : Cardinality(d) <= MaxDeleted }

\* chunksize=1000000, the default of _compute
DefaultChunksize == 1000000

\* ------------------------------------------------------------------ state
VARIABLES
    pc,        \* "start", "ready" (a VMDWriter exists), "loop" (inside the
               \* loop of _compute), "done" (the call returned), "error"
    call,      \* the function or method called: "", "_compute", "compute",
               \* "set_up_translation", "translate_loading", "write_dat"
    self,      \* the fields of the VMDWriter
    args,      \* the arguments of the method called on the writer
    cargs,     \* the arguments of _compute
    user,      \* _compute: the (n_frames, n_atoms) array
    n_chunks,  \* _compute: n_chunks
    chunk_i,   \* _compute: the loop variable
    reads,     \* the (start, stop) of every assn.read issued so far
    err,       \* the exception raised, "" if none
    ret,       \* the value returned
    dat_file,  \* the lines of the .dat file, [exists, lines]
    tcl_file   \* whether the .tcl file was written

vars == <<pc, call, self, args, cargs, user, n_chunks, chunk_i, reads, err,
          ret, dat_file, tcl_file>>

NoSelf == [assn |-> <<>>, solvent_ind |-> <<>>, n_frames |-> 0, n_atoms |-> 0,
           n_solute |-> 0, n_shells |-> 0, which |-> "", to3d |-> "None",
           to2d |-> "None"]

NoArgs == [loading |-> <<>>, deleted |-> {}, stride |-> 0, traj_fn |-> "None",
           top_fn |-> "None"]

NoCargs == [assn |-> <<>>, loading2d |-> EmptyDict, n_frames |-> 0,
            n_atoms |-> 0, solvent_ind |-> <<>>, chunksize |-> 0, which |-> ""]

Init ==
    /\ pc = "start"
    /\ call = ""
    /\ self = NoSelf
    /\ args = NoArgs
    /\ cargs = NoCargs
    /\ user = EmptyDict
    /\ n_chunks = 0
    /\ chunk_i = 0
    /\ reads = <<>>
    /\ err = ""
    /\ ret = "None"
    /\ dat_file = [exists |-> FALSE, lines |-> <<>>]
    /\ tcl_file = [exists |-> FALSE, step |-> 0]

\* ---------------------------------------------------------------- _compute
\* _compute up to its loop: user = np.zeros(...), compute_chunk =
\* func_map[which] (KeyError for a tag that is no key), n_chunks
Enter_compute(a) ==
    /\ cargs' = a
    /\ user' = zeros(a.n_frames, a.n_atoms)
    /\ chunk_i' = 0
    /\ reads' = <<>>
    /\ ret' = "None"
    /\ IF a.which \notin DOMAIN func_map
       THEN /\ pc' = "error"
            /\ err' = "KeyError"
            /\ n_chunks' = 0
       ELSE /\ pc' = "loop"
            /\ err' = ""
            /\ n_chunks' = n_chunks_of(Len(a.assn), a.chunksize)

\* A call of the module's function _compute
Call_compute ==
    /\ pc = "start"
    /\ \E loading2d \in Loading2ds, solvent_ind \in SolventMaps,
          chunksize \in 1 .. MaxChunk, which \in Tags :
       \E assn \in Tables(loading2d) :
          Enter_compute([assn |-> assn, loading2d |-> loading2d,
                         n_frames |-> NFrames, n_atoms |-> NAtoms,
                         solvent_ind |-> solvent_ind, chunksize |-> chunksize,
                         which |-> which])
    /\ call' = "_compute"
    /\ UNCHANGED <<self, args, dat_file, tcl_file>>

\* One iteration of the loop of _compute: read the chunk, hand it to
\* compute_chunk
ChunkStep ==
    /\ pc = "loop"
    /\ chunk_i < n_chunks
    /\ LET rr    == read_range(cargs.chunksize, chunk_i)
           chunk == read(cargs.assn, rr[1], rr[2])
       IN  /\ reads' = Append(reads, rr)
           /\ user' = compute_chunk(func_map[cargs.which], chunk,
                                    cargs.solvent_ind, cargs.loading2d, user)
    /\ chunk_i' = chunk_i + 1
    /\ UNCHANGED <<pc, err, call, self, args, cargs, n_chunks, ret, dat_file,
                   tcl_file>>

\* return user
Return_compute ==
    /\ pc = "loop"
    /\ chunk_i >= n_chunks
    /\ pc' = "done"
    /\ ret' = user
    /\ UNCHANGED <<call, self, args, cargs, user, n_chunks, chunk_i, reads, err,
                   dat_file, tcl_file>>

\* ---------------------------------------------------------------- VMDWriter
VMDWriter_init ==
    /\ pc = "start"
    /\ \E assn \in WriterTables, n_solute \in 1 .. MaxSolute,
          n_shells \in 1 .. MaxShells :
          self' = [assn |-> assn, solvent_ind |-> <<NAtoms - 1, 0>>,
                   n_frames |-> NFrames, n_atoms |-> NAtoms,
                   n_solute |-> n_solute, n_shells |-> n_shells,
                   which |-> "add", to3d |-> "None", to2d |-> "None"]
    /\ pc' = "ready"
    /\ UNCHANGED <<call, args, cargs, user, n_chunks, chunk_i, reads, err, ret,
                   dat_file, tcl_file>>

Call_set_up_translation ==
    /\ pc = "ready"
    /\ \E deleted \in DeletedSets(self.n_solute * self.n_shells) :
          LET r == set_up_translation(self.n_solute, self.n_shells, deleted)
          IN  /\ args' = [NoArgs EXCEPT !.deleted = deleted]
              /\ self' = [self EXCEPT !.to3d = r.to3d, !.to2d = r.to2d]
              /\ ret' = r
    /\ call' = "set_up_translation"
    /\ pc' = "done"
    /\ UNCHANGED <<cargs, user, n_chunks, chunk_i, reads, err, dat_file, tcl_file>>

Call_translate_loading ==
    /\ pc = "ready"
    /\ \E loading \in LoadVecs,
          deleted \in DeletedSets(self.n_solute * self.n_shells) :
          LET r == translate_loading(self.n_solute, self.n_shells, loading, deleted)
          IN  /\ args' = [NoArgs EXCEPT !.loading = loading, !.deleted = deleted]
              /\ IF r.ok
                 THEN /\ pc' = "done"
                      /\ ret' = r.loading2d
                      /\ err' = ""
                 ELSE /\ pc' = "error"
                      /\ ret' = "None"
                      /\ err' = "IndexError"
    /\ call' = "translate_loading"
    /\ UNCHANGED <<self, cargs, user, n_chunks, chunk_i, reads, dat_file, tcl_file>>

\* compute(loading, deleted): translate_loading is evaluated first, then
\* _compute runs with the default chunksize and which=self.which
Call_VMDWriter_compute ==
    /\ pc = "ready"
    /\ \E loading \in LoadVecs,
          deleted \in DeletedSets(self.n_solute * self.n_shells) :
          LET r == translate_loading(self.n_solute, self.n_shells, loading, deleted)
          IN  /\ args' = [NoArgs EXCEPT !.loading = loading, !.deleted = deleted]
              /\ IF r.ok
                 THEN Enter_compute([assn |-> self.assn, loading2d |-> r.loading2d,
                                     n_frames |-> self.n_frames,
                                     n_atoms |-> self.n_atoms,
                                     solvent_ind |-> self.solvent_ind,
                                     chunksize |-> DefaultChunksize,
                                     which |-> self.which])
                 ELSE /\ pc' = "error"
                      /\ err' = "IndexError"
                      /\ UNCHANGED <<cargs, user, n_chunks, chunk_i, reads, ret>>
    /\ call' = "compute"
    /\ UNCHANGED <<self, dat_file, tcl_file>>

\* def compute(self, loading, deleted): the parameters after self
compute_params == <<"loading", "deleted">>

\* self.compute(data, features_to_select, stride) in write_dat: the
\* positional arguments passed
write_dat_compute_args(data, features_to_select, stride) ==
    <<data, features_to_select, stride>>

\* One row of the array as the values of a line of the .dat file
RowOf(arr, f, n_atoms) == [a \in 1 .. n_atoms |-> arr[<<f, a - 1>>]]

\* write_dat(data, features_to_select, out_fn_base, traj_fn, top_fn, stride):
\* the .dat file is opened for writing, self.compute(...) is called (TypeError
\* when the arguments do not fit its parameters), one line is written per row
\* of its result, and the .tcl file is written when both file names are given
Call_write_dat ==
    /\ pc = "ready"
    /\ \E data \in { l \in LoadVecs : Len(l) <= 1 },
          features_to_select \in DeletedSets(self.n_solute * self.n_shells),
          stride \in 1 .. MaxStride,
          traj_fn \in {"None", "traj.xtc"}, top_fn \in {"None", "top.pdb"} :
          LET passed == write_dat_compute_args(data, features_to_select, stride)
              t == translate_loading(self.n_solute, self.n_shells, passed[1],
                                     passed[2])
              r == _compute(self.assn, t.loading2d, self.n_frames, self.n_atoms,
                            self.solvent_ind, DefaultChunksize, self.which)
          IN  /\ args' = [loading |-> data, deleted |-> features_to_select,
                          stride |-> stride, traj_fn |-> traj_fn,
                          top_fn |-> top_fn]
              /\ IF Len(passed) # Len(compute_params)
                 THEN /\ pc' = "error"
                      /\ err' = "TypeError"
                      /\ dat_file' = [exists |-> TRUE, lines |-> <<>>]
                      /\ UNCHANGED tcl_file
                 ELSE IF ~t.ok
                 THEN /\ pc' = "error"
                      /\ err' = "IndexError"
                      /\ dat_file' = [exists |-> TRUE, lines |-> <<>>]
                      /\ UNCHANGED tcl_file
                 ELSE /\ pc' = "done"
                      /\ err' = ""
                      /\ dat_file' = [exists |-> TRUE,
                                      lines |-> [i \in 1 .. self.n_frames |->
                                                   RowOf(r.user, i - 1, self.n_atoms)]]
                      /\ tcl_file' = IF traj_fn # "None" /\ top_fn # "None"
                                     THEN [exists |-> TRUE, step |-> stride]
                                     ELSE tcl_file
    /\ call' = "write_dat"
    /\ UNCHANGED <<self, cargs, user, n_chunks, chunk_i, reads, ret>>

Next ==
    \/ Call_compute
    \/ ChunkStep
    \/ Return_compute
    \/ VMDWriter_init
    \/ Call_set_up_translation
    \/ Call_translate_loading
    \/ Call_VMDWriter_compute
    \/ Call_write_dat

Spec == Init /\ [][Next]_vars

\* ------------------------------------------------------------------ claims
\* The sum of loading2d[solute, shell] over rows 1 .. i of the table that land
\* on the cell, and the number of those rows
RECURSIVE SumContrib(_, _, _, _, _)
SumContrib(assn, solvent_ind, loading2d, cell, i) ==
    IF i = 0 THEN R(0)
    ELSE IF CellOf(assn[i], solvent_ind) = cell
         THEN RatAdd(SumContrib(assn, solvent_ind, loading2d, cell, i - 1),
                     loading2d[<<assn[i][3], assn[i][4]>>])
         ELSE SumContrib(assn, solvent_ind, loading2d, cell, i - 1)

CountContrib(assn, solvent_ind, cell) ==
    Cardinality({ i \in 1 .. Len(assn) : CellOf(assn[i], solvent_ind) = cell })

InCompute == call \in {"_compute", "compute"}

\* The boundary scenario: n_frames=2, n_atoms=3, rows [(0,0,0,0), (0,0,0,0),
\* (1,1,1,1)], map [2, 0], chunk size 1, the loading 5 at (solute 0, shell 0)
\* and the loading 7 at (solute 1, shell 1)
ExampleArgs(which) ==
    [assn |-> << <<0, 0, 0, 0>>, <<0, 0, 0, 0>>, <<1, 1, 1, 1>> >>,
     loading2d |-> (<<0, 0>> :> R(5)) @@ (<<0, 1>> :> R(0)) @@
                   (<<1, 0>> :> R(0)) @@ (<<1, 1>> :> R(7)),
     n_frames |-> 2, n_atoms |-> 3, solvent_ind |-> <<2, 0>>,
     chunksize |-> 1, which |-> which]

\* [[0, 0, x], [7, 0, 0]]
ExampleOut(x) ==
    [c \in (0 .. 1) \X (0 .. 2) |->
        IF c = <<0, 2>> THEN R(x) ELSE IF c = <<1, 0>> THEN R(7) ELSE R(0)]

\* Every cell of the returned array is the sum of the loadings of the rows
\* that land on it, 0 for a cell no row lands on
SumCells ==
    (InCompute /\ pc = "done" /\ cargs.which = "add") =>
        \A cell \in DOMAIN ret :
            ret[cell] = SumContrib(cargs.assn, cargs.solvent_ind, cargs.loading2d,
                                   cell, Len(cargs.assn))

\* C1: under the sum policy every cell of the array _compute returns is the
\* sum of the loadings of the rows that land on it, 0 when it has none, and the
\* boundary inputs return [[0, 0, 10], [7, 0, 0]].
C1_SumPolicy ==
    /\ SumCells
    /\ (call = "_compute" /\ cargs = ExampleArgs("add")
        /\ pc \in {"done", "error"}) =>
           (pc = "done" /\ ret = ExampleOut(10))

C1_Witness ==
    /\ call = "_compute"
    /\ pc = "done"
    /\ cargs = ExampleArgs("add")
    /\ Len(reads) > 1
    /\ ret[<<0, 2>>] = R(10)

\* C2: under the sum policy, _compute run with any chunk size returns the
\* array that _compute returns when one chunk holds the whole table.
C2_ChunkIndependent ==
    (InCompute /\ pc = "done" /\ cargs.which = "add") =>
        LET whole == _compute(cargs.assn, cargs.loading2d, cargs.n_frames,
                              cargs.n_atoms, cargs.solvent_ind,
                              Len(cargs.assn) + 1, cargs.which)
        IN  whole.ok /\ ret = whole.user

C2_Witness ==
    /\ call = "_compute"
    /\ pc = "done"
    /\ cargs.which = "add"
    /\ cargs.chunksize = 2
    /\ Len(cargs.assn) = 3
    /\ \E cell \in DOMAIN ret :
          CountContrib(cargs.assn, cargs.solvent_ind, cell) = 3

\* C3: under the avg policy every cell of the array _compute returns is 0 when
\* no row lands on it and the arithmetic mean of the loadings of its rows
\* otherwise, for every chunk size.
C3_AvgIsMean ==
    (InCompute /\ pc = "done" /\ cargs.which = "avg") =>
        \A cell \in DOMAIN ret :
            LET k == CountContrib(cargs.assn, cargs.solvent_ind, cell)
            IN  ret[cell] =
                  IF k = 0 THEN R(0)
                  ELSE RatDiv(SumContrib(cargs.assn, cargs.solvent_ind,
                                         cargs.loading2d, cell, Len(cargs.assn)), k)

\* The absolute index of a (solute, shell) pair
AbsIndex(pair, n_shells) == pair[1] * n_shells + pair[2]

Pairs(n_solute, n_shells) == (0 .. n_solute - 1) \X (0 .. n_shells - 1)

KeptCount(n_solute, n_shells, deleted) ==
    n_solute * n_shells - Cardinality(deleted)

\* C4: to3d[to2d[(s, h)]] = (s, h) for every pair that is not pruned, to2d is
\* -1 for exactly the pruned pairs, and the keys of to3d are 0 .. kept_count - 1
\* in row-major order of their pairs.
C4_Translation ==
    (call = "set_up_translation" /\ pc = "done") =>
        LET ns == self.n_shells
            P  == args.deleted
        IN  /\ DOMAIN ret.to2d = Pairs(self.n_solute, ns)
            /\ \A p \in Pairs(self.n_solute, ns) :
                  /\ (AbsIndex(p, ns) \in P) <=> (ret.to2d[p] = -1)
                  /\ (AbsIndex(p, ns) \notin P) =>
                        /\ ret.to2d[p] \in DOMAIN ret.to3d
                        /\ ret.to3d[ret.to2d[p]] = p
            /\ DOMAIN ret.to3d = 0 .. KeptCount(self.n_solute, ns, P) - 1
            /\ \A j, k \in DOMAIN ret.to3d :
                  j < k => AbsIndex(ret.to3d[j], ns) < AbsIndex(ret.to3d[k], ns)
            /\ self.to3d = ret.to3d
            /\ self.to2d = ret.to2d

C4_Witness ==
    /\ call = "set_up_translation"
    /\ pc = "done"
    /\ self.n_solute = 2
    /\ self.n_shells = 2
    /\ args.deleted = {1}
    /\ ret.to2d[<<0, 1>>] = -1
    /\ ret.to3d[1] = <<1, 0>>

\* C5: for a loading vector of length kept_count, translate_loading returns
\* the matrix with loading[to2d[(s, h)]] at every pair that is not pruned and
\* 0.0 at every pruned pair, and reading the matrix at to3d[0], to3d[1], ...
\* gives the loading vector back.
C5_Expansion ==
    (call = "translate_loading" /\ pc \in {"done", "error"}
     /\ Len(args.loading) = KeptCount(self.n_solute, self.n_shells, args.deleted)) =>
        LET tr == set_up_translation(self.n_solute, self.n_shells, args.deleted)
        IN  /\ pc = "done"
            /\ DOMAIN ret = Pairs(self.n_solute, self.n_shells)
            /\ \A p \in Pairs(self.n_solute, self.n_shells) :
                  ret[p] = IF tr.to2d[p] # -1
                           THEN R(args.loading[tr.to2d[p] + 1]) ELSE R(0)
            /\ [i \in 1 .. Len(args.loading) |-> ret[tr.to3d[i - 1]]] =
               [i \in 1 .. Len(args.loading) |-> R(args.loading[i])]

C5_Witness ==
    /\ call = "translate_loading"
    /\ pc = "done"
    /\ self.n_solute = 2
    /\ self.n_shells = 2
    /\ args.deleted = {1}
    /\ args.loading = <<1, 2, 3>>
    /\ ret = (<<0, 0>> :> R(1)) @@ (<<0, 1>> :> R(0)) @@
             (<<1, 0>> :> R(2)) @@ (<<1, 1>> :> R(3))

\* C6: compute fails whenever the length of the loading vector differs from
\* kept_count, shorter or longer, before any chunk of the table is read.
C6_DimensionMismatch ==
    (call = "compute"
     /\ Len(args.loading) # KeptCount(self.n_solute, self.n_shells, args.deleted)) =>
        (pc = "error" /\ reads = <<>>)

\* C7 (as stated): _compute with a tag outside {sum, max, avg} fails before
\* any read of the table, and with a tag in {sum, max, avg} does not fail on
\* the tag.
C7_Original ==
    call = "_compute" =>
        /\ (cargs.which \notin {"sum", "max", "avg"}) =>
              (pc = "error" /\ err = "KeyError" /\ reads = <<>>)
        /\ (cargs.which \in {"sum", "max", "avg"}) => err # "KeyError"

\* C7 (amended): _compute with a tag outside {add, max, avg} fails before any
\* read of the table, and with a tag in {add, max, avg} does not fail on the
\* tag.
C7_Tags ==
    call = "_compute" =>
        /\ (cargs.which \notin {"add", "max", "avg"}) =>
              (pc = "error" /\ err = "KeyError" /\ reads = <<>> /\ ret = "None")
        /\ (cargs.which \in {"add", "max", "avg"}) => err # "KeyError"

C7_Witness ==
    /\ call = "_compute"
    /\ cargs.which = "sum"
    /\ Len(cargs.assn) > 0
    /\ pc = "error"
    /\ err = "KeyError"
    /\ reads = <<>>

\* C9: write_dat with stride s >= 1 completes without error and leaves
\* n_frames // s lines of n_atoms values in the data file.
C9_WriteDat ==
    (call = "write_dat" /\ args.stride >= 1) =>
        /\ pc = "done"
        /\ Len(dat_file.lines) = self.n_frames \div args.stride
        /\ \A i \in 1 .. Len(dat_file.lines) : Len(dat_file.lines[i]) = self.n_atoms

\* C10: _compute issues exactly ceil(M / c) reads, the i-th being
\* [c * i, c * (i + 1)), none of them empty.
C10_Reads ==
    (call = "_compute" /\ pc = "done") =>
        LET M == Len(cargs.assn)
            c == cargs.chunksize
        IN  /\ Len(reads) = (M + c - 1) \div c
            /\ \A i \in 1 .. Len(reads) :
                  /\ reads[i] = <<c * (i - 1), c * i>>
                  /\ reads[i][1] < M

====
